---- MODULE Spec2Model ----
(***************************************************************************)
(* Model of ApiTypesGenerator                                              *)
(* (packages/core/src/codegen/api_types_generator.ts).                     *)
(*                                                                         *)
(* Representation of strings.  A route pattern is kept as the sequence of  *)
(* pieces that pattern.split('/') yields, so '/users/:id' is               *)
(* <<"", "users", ":id">> and '/' is <<"", "">>; a piece is a record of    *)
(* its leading sigil (":" or "") and the rest of its text.  Every other    *)
(* string of the program (type names, verb keys, request and response      *)
(* type references, paths, log messages) is a TLA+ string built with \o    *)
(* the way the code builds it.                                             *)
(***************************************************************************)
EXTENDS Naturals, Sequences, FiniteSets, TLC

(***************************************************************************)
(* Bounds                                                                  *)
(***************************************************************************)
MaxRoutes == 2

MaxRuns == 2

(***************************************************************************)
(* Generic sequence helpers (Array.prototype.filter / map / join)          *)
(***************************************************************************)
RECURSIVE JoinWith(_, _)
JoinWith(strs, sep) ==
    IF Len(strs) = 0 THEN ""
    ELSE IF Len(strs) = 1 THEN strs[1]
    ELSE strs[1] \o sep \o JoinWith(Tail(strs), sep)

RECURSIVE ConcatAll(_)
ConcatAll(strs) ==
    IF Len(strs) = 0 THEN "" ELSE strs[1] \o ConcatAll(Tail(strs))

RECURSIVE FlatLines(_)
FlatLines(seqs) ==
    IF Len(seqs) = 0 THEN <<>> ELSE seqs[1] \o FlatLines(Tail(seqs))

SeqsUpTo(S, n) == UNION {[1..k -> S] : k \in 0..n}

(***************************************************************************)
(* Pattern pieces                                                          *)
(***************************************************************************)
Piece(sigil, text) == [sigil |-> sigil, text |-> text]

EmptyPiece == Piece("", "")

PieceStr(p) == p.sigil \o p.text

\* route.pattern as the string the code sees
PatternStr(pattern) == JoinWith([i \in 1..Len(pattern) |-> PieceStr(pattern[i])], "/")

\* pattern.split('/').filter(Boolean)
Segments(pattern) == SelectSeq(pattern, LAMBDA p : PieceStr(p) # "")

\* string.pascalCase of one word of the vocabulary
PascalWord(w) ==
    CASE w = "users" -> "Users"
      [] w = "posts" -> "Posts"
      [] w = "admin" -> "Admin"
      [] w = "id"    -> "Id"
      [] w = "GET"   -> "Get"
      [] w = "HEAD"  -> "Head"
      [] w = "POST"  -> "Post"

\* string.pascalCase of words.join(' ')
PascalCase(words) == ConcatAll([i \in 1..Len(words) |-> PascalWord(words[i])])

\* String.prototype.toLowerCase on an HTTP verb
ToLowerCase(m) ==
    CASE m = "GET"  -> "get"
      [] m = "HEAD" -> "head"
      [] m = "POST" -> "post"

\* #generateTypeName
GenerateTypeName(pattern, methods) ==
    LET segs == Segments(pattern)
        remappedSegments ==
            [i \in 1..Len(segs) |->
                IF segs[i].sigil = ":" THEN "id" ELSE PieceStr(segs[i])]
    IN PascalCase(remappedSegments) \o PascalCase(methods)

\* matchit.parse(pattern).filter(type !== 0).map(val)
Params(pattern) ==
    LET dyn == SelectSeq(Segments(pattern), LAMBDA p : p.sigil = ":")
    IN [i \in 1..Len(dyn) |-> dyn[i].text]

(***************************************************************************)
(* Route filter configuration (config.codegen[mode])                       *)
(*   a filter is undefined, a predicate function (given by the set of      *)
(*   patterns it returns true for) or a list of strings / regular          *)
(*   expressions; a regular expression is of the form /^<prefix>/          *)
(***************************************************************************)
NoFilter == [kind |-> "undefined", accepts |-> {}, items |-> <<>>]

FnFilter(accepts) == [kind |-> "fn", accepts |-> accepts, items |-> <<>>]

ListFilter(items) == [kind |-> "list", accepts |-> {}, items |-> items]

StrItem(pattern) == [re |-> FALSE, pat |-> pattern]

ReItem(prefix) == [re |-> TRUE, pat |-> prefix]

NoModeConfig == [defined |-> FALSE, only |-> NoFilter, except |-> NoFilter]

ModeConfig(only, except) == [defined |-> TRUE, only |-> only, except |-> except]

\* RegExp.prototype.test for /^<prefix>/ against a pattern
RegExpTest(prefix, pattern) ==
    /\ Len(pattern) >= Len(prefix)
    /\ SubSeq(pattern, 1, Len(prefix)) = prefix

\* one iteration of the for loops of #filterRoutes: the entry matches
ItemMatches(item, pattern) ==
    \/ item.re /\ RegExpTest(item.pat, pattern)
    \/ ~item.re /\ pattern = item.pat

\* the callback passed to routes.filter in #filterRoutes
FilterKeep(cfg, route) ==
    IF cfg.only.kind = "fn" THEN route.pattern \in cfg.only.accepts
    ELSE IF cfg.except.kind = "fn" THEN route.pattern \notin cfg.except.accepts
    ELSE IF cfg.only.kind # "undefined"
         THEN \E i \in 1..Len(cfg.only.items) : ItemMatches(cfg.only.items[i], route.pattern)
    ELSE IF cfg.except.kind # "undefined"
         THEN ~\E i \in 1..Len(cfg.except.items) : ItemMatches(cfg.except.items[i], route.pattern)
    ELSE TRUE

\* #filterRoutes
FilterRoutes(rs, cfg) ==
    IF ~cfg.defined \/ (cfg.only.kind = "undefined" /\ cfg.except.kind = "undefined")
    THEN rs
    ELSE SelectSeq(rs, LAMBDA r : FilterKeep(cfg, r))

(***************************************************************************)
(* The source project (ts-morph Project) and handler references            *)
(***************************************************************************)
\* an argument of a call expression: an identifier (with or without a
\* resolvable implementation), another expression, or no argument at all
IdentArg(name, impl) == [kind |-> "identifier", text |-> name, impl |-> impl]

OtherArg == [kind |-> "other", text |-> "vine.compile()", impl |-> <<>>]

Call(callee, args) == [callee |-> callee, vu |-> FALSE, args |-> args]

\* a call whose callee text includes 'validateUsing'
ValidateUsingCall(args) == [callee |-> "request.validateUsing", vu |-> TRUE, args |-> args]

\* a method declaration: its call expressions in forEachDescendant order
Method(name, hasBody, calls) == [name |-> name, hasBody |-> hasBody, calls |-> calls]

SourceFile(path, defaultClass, methods) ==
    [path |-> path, defaultClass |-> defaultClass, methods |-> methods]

ValidatorFile == <<"app", "validators", "user.ts">>

UsersController ==
    SourceFile(<<"app", "controllers", "users_controller.ts">>, TRUE,
      << Method("index", TRUE, << Call("User.all", <<>>) >>),
         Method("store", TRUE,
            << Call("logger.info", << OtherArg >>),
               ValidateUsingCall(<< IdentArg("createUserValidator", ValidatorFile) >>) >>),
         Method("update", TRUE,
            << ValidateUsingCall(<< OtherArg >>),
               ValidateUsingCall(<< IdentArg("createUserValidator", ValidatorFile) >>) >>),
         Method("patch", TRUE, << ValidateUsingCall(<<>>) >>),
         Method("destroy", TRUE,
            << ValidateUsingCall(<< IdentArg("ghostValidator", <<>>) >>),
               ValidateUsingCall(<< IdentArg("createUserValidator", ValidatorFile) >>) >>),
         Method("show", TRUE,
            << ValidateUsingCall(<< IdentArg("showValidator", ValidatorFile) >>),
               ValidateUsingCall(<< OtherArg >>) >>),
         Method("overload", FALSE, <<>>) >>)

\* a module with classes but no default-exported class
PostsController ==
    SourceFile(<<"app", "controllers", "posts_controller.ts">>, FALSE, <<>>)

\* project.getSourceFiles() when the generator is constructed
InitialSourceFiles ==
    << UsersController, PostsController, SourceFile(ValidatorFile, FALSE, <<>>) >>

\* this.#destination relative to the application root
Destination == <<".adonisjs", "api.ts">>

\* the generated file as a member of the project: no class in it
ApiSourceFile == SourceFile(Destination, FALSE, <<>>)

\* route.handler: an inline function or { reference }, the reference given
\* by what parseBindingReference returns for it
InlineHandler == [fn |-> TRUE, moduleNameOrPath |-> <<>>, method |-> ""]

Reference(moduleNameOrPath, method) ==
    [fn |-> FALSE, moduleNameOrPath |-> moduleNameOrPath, method |-> method]

\* `${routeHandler.moduleNameOrPath.replace('#', '')}.ts`, as path components
ModuleFileName(handler) ==
    LET m == handler.moduleNameOrPath
    IN [i \in 1..Len(m) |-> IF i = Len(m) THEN m[i] \o ".ts" ELSE m[i]]

\* sf.getFilePath().endsWith(...)
EndsWith(path, suffix) ==
    /\ Len(path) >= Len(suffix)
    /\ SubSeq(path, Len(path) - Len(suffix) + 1, Len(path)) = suffix

\* sourcesFiles.find(...): index of the first matching file, 0 if none
FindFile(files, handler) ==
    LET hits == {i \in 1..Len(files) : EndsWith(files[i].path, ModuleFileName(handler))}
    IN IF hits = {} THEN 0 ELSE CHOOSE i \in hits : \A j \in hits : i <= j

\* variant: a method without a body is returned as well
ExtractClassHandlerDataIgnoringBody(file, handler) ==
    IF ~file.defaultClass THEN 0
    ELSE LET hits == {i \in 1..Len(file.methods) : file.methods[i].name = handler.method}
         IN IF hits = {} THEN 0 ELSE CHOOSE i \in hits : TRUE

\* #extractClassHandlerData: index of the method in file.methods, 0 when
\* the class, the method or its body is missing
ExtractClassHandlerData(file, handler) ==
    IF ~file.defaultClass THEN 0
    ELSE LET hits == {i \in 1..Len(file.methods) : file.methods[i].name = handler.method}
         IN IF hits = {} THEN 0
            ELSE LET i == CHOOSE i \in hits : TRUE
                 IN IF file.methods[i].hasBody THEN i ELSE 0

\* relative(this.#getDestinationDirectory(), path)
RelativePath(path) == JoinWith(<<"..">> \o path, "/")

\* variant: the last validateUsing call is taken instead of the first
ValidateUsingCallNodeLast(method) ==
    LET hits == {i \in 1..Len(method.calls) : method.calls[i].vu}
    IN IF hits = {} THEN 0 ELSE CHOOSE i \in hits : \A j \in hits : i >= j

\* forEachDescendant callback of #extractRequest: index of the first call
\* expression whose callee includes 'validateUsing', 0 if none
ValidateUsingCallNode(method) ==
    LET hits == {i \in 1..Len(method.calls) : method.calls[i].vu}
    IN IF hits = {} THEN 0 ELSE CHOOSE i \in hits : \A j \in hits : i <= j

NoSchema == [found |-> FALSE, text |-> "", warn |-> <<>>]

\* #extractRequest: the schema import (found/text) and the warnings logged
ExtractRequest(method) ==
    LET n == ValidateUsingCallNode(method)
    IN IF n = 0 THEN NoSchema
       ELSE LET args == method.calls[n].args
            IN IF Len(args) = 0 \/ args[1].kind # "identifier" THEN NoSchema
               ELSE IF args[1].impl = <<>>
                    THEN [found |-> FALSE, text |-> "",
                          warn |-> << "Unable to find the schema file for " \o args[1].text >>]
                    ELSE [found |-> TRUE,
                          text |-> "InferInput<typeof import('" \o RelativePath(args[1].impl)
                                   \o "')['" \o args[1].text \o "']>",
                          warn |-> <<>>]


(***************************************************************************)
(* Insertion-ordered objects (Record<string, any>)                         *)
(*   typesByPattern : sequence of [key, request, response]                 *)
(*   definition     : sequence of [path, obj, val], one entry per property *)
(*                    of the nested object, path being the keys from the   *)
(*                    root; obj says the value is an object, val is the    *)
(*                    string value otherwise.  Both in insertion order,    *)
(*                    which is the order Object.entries visits them in.    *)
(***************************************************************************)
TypeKeys(types) == {types[i].key : i \in 1..Len(types)}

TypeIndex(types, key) == CHOOSE i \in 1..Len(types) : types[i].key = key

\* variant: an existing entry is kept
SetTypeKeepFirst(types, key, request, response) ==
    IF key \in TypeKeys(types) THEN types
    ELSE Append(types, [key |-> key, request |-> request, response |-> response])

\* typesByPattern[key] = { request, response }
SetType(types, key, request, response) ==
    LET e == [key |-> key, request |-> request, response |-> response]
    IN IF key \in TypeKeys(types)
       THEN [types EXCEPT ![TypeIndex(types, key)] = e]
       ELSE Append(types, e)

DefPaths(def) == {def[i].path : i \in 1..Len(def)}

DefIndex(def, path) == CHOOSE i \in 1..Len(def) : def[i].path = path

\* node[key] = value, for the property reached by path
SetProp(def, path, obj, val) ==
    LET e == [path |-> path, obj |-> obj, val |-> val]
    IN IF path \in DefPaths(def)
       THEN [def EXCEPT ![DefIndex(def, path)] = e]
       ELSE Append(def, e)

RECURSIVE SetProps(_, _, _, _)
\* for (const method of methods) currentLevel[method] = typeName
SetProps(def, node, keys, val) ==
    IF Len(keys) = 0 THEN def
    ELSE SetProps(SetProp(def, Append(node, keys[1]), FALSE, val), node, Tail(keys), val)

(***************************************************************************)
(* generate(): one iteration of the loop over the routes                   *)
(***************************************************************************)
Warning(msg) == [level |-> "warning", msg |-> msg]

Info(msg) == [level |-> "info", msg |-> msg]

\* route.methods.map('$' + lower).filter(method !== 'head')
VerbKeys(methods) ==
    SelectSeq([i \in 1..Len(methods) |-> "$" \o ToLowerCase(methods[i])],
              LAMBDA method : method # "head")

\* `if (!currentLevel[segment]) currentLevel[segment] = {}` for every segment
WalkSegments(def, segs) ==
    LET prefix(i) == SubSeq(segs, 1, i)
        missing == SelectSeq([i \in 1..Len(segs) |-> prefix(i)],
                             LAMBDA p : p \notin DefPaths(def))
    IN def \o [i \in 1..Len(missing) |-> [path |-> missing[i], obj |-> TRUE, val |-> ""]]

\* segments.forEach(...) of generate(): the definition tree after the route
BuildDefinition(def, route, typeName) ==
    LET segs == [i \in 1..Len(Segments(route.pattern)) |-> PieceStr(Segments(route.pattern)[i])]
    IN IF Len(segs) = 0 THEN def
       ELSE SetProps(SetProp(WalkSegments(def, segs), Append(segs, "$url"), TRUE, ""),
                     segs, VerbKeys(route.methods), typeName)

\* the TypeEntry map after the route
BuildTypes(types, route, schemaImport, file, handler) ==
    IF Len(Segments(route.pattern)) = 0 THEN types
    ELSE SetType(types, GenerateTypeName(route.pattern, route.methods),
            IF schemaImport.found
              THEN "MakeTuyauRequest<" \o schemaImport.text \o ">" ELSE "unknown",
            "MakeTuyauResponse<import('" \o RelativePath(file.path) \o "').default['"
              \o handler.method \o "']>")

\* outcome of the loop body for one route: what it logs and the two
\* accumulators after it
RouteStep(files, def, types, route) ==
    IF route.handler.fn
    THEN [log |-> <<>>, definition |-> def, typesByPattern |-> types]
    ELSE LET f == FindFile(files, route.handler)
         IN IF f = 0
            THEN [log |-> << Warning("Unable to find the controller file for "
                                      \o PatternStr(route.pattern)) >>,
                  definition |-> def, typesByPattern |-> types]
            ELSE LET info == Info("Generating types for " \o PatternStr(route.pattern))
                     m == ExtractClassHandlerData(files[f], route.handler)
                 IN IF m = 0
                    THEN [log |-> << info, Warning("Unable to find the controller method for "
                                                    \o PatternStr(route.pattern)) >>,
                          definition |-> def, typesByPattern |-> types]
                    ELSE LET schemaImport == ExtractRequest(files[f].methods[m])
                         IN [log |-> <<info>> \o
                                     [i \in 1..Len(schemaImport.warn) |-> Warning(schemaImport.warn[i])],
                             definition |->
                                 BuildDefinition(def, route,
                                     GenerateTypeName(route.pattern, route.methods)),
                             typesByPattern |->
                                 BuildTypes(types, route, schemaImport, files[f], route.handler)]

(***************************************************************************)
(* #generateRoutesNameArray                                                *)
(***************************************************************************)
\* route.name of a route without a name
Undefined == "undefined"

\* variant: the type name is used whether or not it was generated
RouteNameEntryNoFallback(route, types) ==
    [params |-> Params(route.pattern),
     name   |-> route.name,
     path   |-> PatternStr(route.pattern),
     method |-> route.methods,
     types  |-> GenerateTypeName(route.pattern, route.methods)]

RouteNameEntry(route, types) ==
    LET typeName == GenerateTypeName(route.pattern, route.methods)
    IN [params |-> Params(route.pattern),
        name   |-> route.name,
        path   |-> PatternStr(route.pattern),
        method |-> route.methods,
        types  |-> IF typeName \in TypeKeys(types) THEN typeName ELSE "unknown"]

\* variant: routes without a name are not dropped
GenerateRoutesNameArrayUnfiltered(rs, types) ==
    [i \in 1..Len(rs) |-> RouteNameEntry(rs[i], types)]

\* variant: only routes with a handler reference are listed
GenerateRoutesNameArrayReferencesOnly(rs, types) ==
    LET refs == SelectSeq(rs, LAMBDA r : ~r.handler.fn)
    IN SelectSeq([i \in 1..Len(refs) |-> RouteNameEntry(refs[i], types)],
                 LAMBDA e : e.name # Undefined /\ e.name # "")

GenerateRoutesNameArray(rs, types) ==
    SelectSeq([i \in 1..Len(rs) |-> RouteNameEntry(rs[i], types)],
              LAMBDA e : e.name # Undefined /\ e.name # "")

(***************************************************************************)
(* #writeApiFile: the text written, as a sequence of lines                 *)
(***************************************************************************)
\* JSON.stringify of an array of strings
JsonStringify(strs) ==
    "[" \o JoinWith([i \in 1..Len(strs) |-> "\"" \o strs[i] \o "\""], ",") \o "]"

Children(def, node) ==
    SelectSeq(def, LAMBDA e : /\ Len(e.path) = Len(node) + 1
                              /\ SubSeq(e.path, 1, Len(node)) = node)

RECURSIVE GenerateDefinitionInterface(_, _, _)
\* #generateDefinitionInterface
GenerateDefinitionInterface(def, node, indent) ==
    LET cs == Children(def, node)
        key(e) == e.path[Len(e.path)]
    IN FlatLines([i \in 1..Len(cs) |->
          IF cs[i].obj
          THEN << indent \o "'" \o key(cs[i]) \o "': {" >>
               \o GenerateDefinitionInterface(def, cs[i].path, indent \o "  ")
               \o << indent \o "};" >>
          ELSE << indent \o "'" \o key(cs[i]) \o "': " \o cs[i].val \o ";" >>])

ApiFileText(names, def, types) ==
    << "import type { MakeTuyauRequest, MakeTuyauResponse } from '@tuyau/utils/types'",
       "import type { InferInput } from '@vinejs/vine/types'",
       "" >>
    \o FlatLines([i \in 1..Len(types) |->
          << "type " \o types[i].key \o " = {",
             "  request: " \o types[i].request,
             "  response: " \o types[i].response,
             "}" >>])
    \o << "export interface ApiDefinition {" >>
    \o GenerateDefinitionInterface(def, <<>>, "  ")
    \o << "}", "const routes = [" >>
    \o FlatLines([i \in 1..Len(names) |->
          << "  {",
             "    params: " \o JsonStringify(names[i].params) \o ",",
             "    name: '" \o names[i].name \o "',",
             "    path: '" \o names[i].path \o "',",
             "    method: " \o JsonStringify(names[i].method) \o ",",
             "    types: {} as " \o names[i].types \o ",",
             "  }," >>])
    \o << "] as const;",
          "export const api = {", "  routes,", "  definition: {} as ApiDefinition", "}",
          "declare module '@tuyau/inertia/types' {",
          "  type ApiDefinition = typeof api",
          "  export interface Api extends ApiDefinition {}",
          "}" >>

\* variant: the previous text is not removed
InsertTextAppend(oldText, text) == oldText \o text

\* file.removeText().insertText(0, writer): the text of the file afterwards
InsertText(oldText, text) == text

\* project.createSourceFile(path, '', { overwrite: true }): the project's files
CreateSourceFile(files) ==
    IF \E i \in 1..Len(files) : files[i].path = Destination
    THEN [i \in 1..Len(files) |-> IF files[i].path = Destination THEN ApiSourceFile ELSE files[i]]
    ELSE Append(files, ApiSourceFile)


(***************************************************************************)
(* Inputs: the routes and the configuration the generator is built with    *)
(***************************************************************************)
Route(pattern, methods, handler, name) ==
    [pattern |-> pattern, methods |-> methods, handler |-> handler, name |-> name]

RootPattern == << EmptyPiece, EmptyPiece >>

UsersPattern == << EmptyPiece, Piece("", "users") >>

UsersIdPattern == << EmptyPiece, Piece("", "users"), Piece(":", "id") >>

UsersUserIdPattern == << EmptyPiece, Piece("", "users"), Piece(":", "userId") >>

UsersIdPostsPattern ==
    << EmptyPiece, Piece("", "users"), Piece(":", "id"), Piece("", "posts") >>

AdminPattern == << EmptyPiece, Piece("", "admin") >>

UsersModule == <<"controllers", "users_controller">>

\* handlers that resolve to a method with a body
ResolvableHandlers ==
    {Reference(UsersModule, m) : m \in {"index", "store", "update", "patch", "destroy", "show"}}

\* handlers for which no file, no default class, no method or no body is found
UnresolvableHandlers ==
    { Reference(<<"controllers", "ghost_controller">>, "index"),
      Reference(<<"controllers", "posts_controller">>, "index"),
      Reference(UsersModule, "missing"),
      Reference(UsersModule, "overload"),
      Reference(<<"api">>, "index") }

\* routes that exercise the definition tree: shared prefixes, colliding
\* type names, HEAD, the root pattern
TreeRoutes ==
    { Route(p, <<"GET", "HEAD">>, Reference(UsersModule, "index"), Undefined) :
        p \in {RootPattern, UsersPattern, UsersIdPattern, UsersUserIdPattern, UsersIdPostsPattern} }
    \cup { Route(p, <<"POST">>, Reference(UsersModule, "index"), Undefined) :
             p \in {UsersPattern, UsersIdPattern} }
    \cup { Route(UsersUserIdPattern, ms, Reference(UsersModule, "store"), Undefined) :
             ms \in {<<"GET", "HEAD">>, <<"POST">>} }

\* routes that exercise handler and schema resolution
HandlerRoutes ==
    { Route(UsersPattern, <<"GET">>, h, "users.index") :
        h \in ResolvableHandlers \cup UnresolvableHandlers \cup {InlineHandler} }
    \cup { Route(RootPattern, <<"GET">>, Reference(UsersModule, m), "home") :
             m \in {"update", "destroy"} }

\* routes that exercise the named-routes array
NamedRoutes ==
    { Route(AdminPattern, <<"GET">>, h, n) :
        h \in {InlineHandler, Reference(UsersModule, "index")},
        n \in {Undefined, "a"} }
    \cup { Route(AdminPattern, <<"GET">>, InlineHandler, "b"),
           Route(UsersIdPattern, <<"GET">>, InlineHandler, "users.show") }

AllRoutes == TreeRoutes \cup HandlerRoutes \cup NamedRoutes

NoConfig == [definitions |-> NoModeConfig, routes |-> NoModeConfig]

FilterPatterns == {UsersPattern, UsersIdPattern, AdminPattern}

\* the shapes a filter can take over the patterns above
Filters ==
    { NoFilter,
      FnFilter({UsersPattern}), FnFilter({AdminPattern, UsersIdPattern}),
      ListFilter(<<>>),
      ListFilter(<< StrItem(AdminPattern) >>),
      ListFilter(<< ReItem(UsersPattern) >>),
      ListFilter(<< StrItem(UsersIdPattern), ReItem(AdminPattern) >>) }

ModeConfigs == {NoModeConfig} \cup {ModeConfig(o, e) : o \in Filters, e \in Filters}

(***************************************************************************)
(* State                                                                   *)
(***************************************************************************)
VARIABLES
    routes,           \* this.#routes
    config,           \* this.#config.codegen
    project,          \* the source files of this.#project
    pc,               \* "idle", "loop", "saving" (awaiting file.save()), "aborted"
    runs,             \* calls of generate() so far
    sourcesFiles,     \* generate(): const sourcesFiles
    filtered,         \* generate(): const routes
    idx,              \* generate(): position of the for loop in filtered
    definition,       \* generate(): const definition
    typesByPattern,   \* generate(): const typesByPattern
    routesNameArray,  \* generate(): const routesNameArray
    log,              \* what this.#logger received during the current call
    apiText,          \* text of the destination source file in the project
    disk,             \* content of the destination file on disk
    written           \* the content each completed call saved, in order

vars == << routes, config, project, pc, runs, sourcesFiles, filtered, idx, definition,
           typesByPattern, routesNameArray, log, apiText, disk, written >>

\* the state after the constructor, for given routes and configuration
Constructed(rs, cfg) ==
    /\ routes = rs
    /\ config = cfg
    /\ project = InitialSourceFiles
    /\ pc = "idle"
    /\ runs = 0
    /\ sourcesFiles = <<>>
    /\ filtered = <<>>
    /\ idx = 1
    /\ definition = <<>>
    /\ typesByPattern = <<>>
    /\ routesNameArray = <<>>
    /\ log = <<>>
    /\ apiText = <<>>
    /\ disk = <<>>
    /\ written = <<>>

Init == \E rs \in SeqsUpTo(AllRoutes, MaxRoutes) : Constructed(rs, NoConfig)

\* filtering: few routes, every pair of filter shapes for both modes
InitFilter ==
    \E rs \in SeqsUpTo({Route(p, <<"GET">>, h, "r") :
                           p \in FilterPatterns,
                           h \in {InlineHandler, Reference(UsersModule, "index")}}, MaxRoutes) :
      \E d \in ModeConfigs, r \in ModeConfigs :
         /\ d = NoModeConfig \/ r = NoModeConfig
         /\ Constructed(rs, [definitions |-> d, routes |-> r])

(***************************************************************************)
(* Actions                                                                 *)
(***************************************************************************)
\* generate() up to the loop: fresh accumulators, the project's files, the
\* routes filtered for 'definitions'.  A call that rejected is fatal to the
\* command that made it: no further call follows it.
Generate ==
    /\ pc = "idle"
    /\ runs < MaxRuns
    /\ runs' = runs + 1
    /\ definition' = <<>>
    /\ typesByPattern' = <<>>
    /\ sourcesFiles' = project
    /\ filtered' = FilterRoutes(routes, config.definitions)
    /\ idx' = 1
    /\ routesNameArray' = <<>>
    /\ log' = <<>>
    /\ pc' = "loop"
    /\ UNCHANGED << routes, config, project, apiText, disk, written >>

\* one iteration of `for (const route of routes)`
ProcessRoute ==
    /\ pc = "loop"
    /\ idx <= Len(filtered)
    /\ LET step == RouteStep(sourcesFiles, definition, typesByPattern, filtered[idx])
       IN /\ log' = log \o step.log
          /\ definition' = step.definition
          /\ typesByPattern' = step.typesByPattern
    /\ idx' = idx + 1
    /\ UNCHANGED << routes, config, project, pc, runs, sourcesFiles, filtered,
                    routesNameArray, apiText, disk, written >>

\* after the loop: the named routes, then #writeApiFile up to file.save()
WriteApiFile ==
    /\ pc = "loop"
    /\ idx > Len(filtered)
    /\ routesNameArray' =
          GenerateRoutesNameArray(FilterRoutes(filtered, config.routes), typesByPattern)
    /\ project' = CreateSourceFile(project)
    /\ apiText' = InsertText(apiText, ApiFileText(routesNameArray', definition, typesByPattern))
    /\ pc' = "saving"
    /\ UNCHANGED << routes, config, runs, sourcesFiles, filtered, idx, definition,
                    typesByPattern, log, disk, written >>

\* file.save() resolves: generate() returns
Save ==
    /\ pc = "saving"
    /\ disk' = apiText
    /\ written' = Append(written, apiText)
    /\ pc' = "idle"
    /\ UNCHANGED << routes, config, project, runs, sourcesFiles, filtered, idx, definition,
                    typesByPattern, routesNameArray, log, apiText >>

\* the file cannot be written: generate() rejects
SaveFails ==
    /\ pc = "saving"
    /\ pc' = "aborted"
    /\ UNCHANGED << routes, config, project, runs, sourcesFiles, filtered, idx, definition,
                    typesByPattern, routesNameArray, log, apiText, disk, written >>

Next == Generate \/ ProcessRoute \/ WriteApiFile \/ Save \/ SaveFails

Spec == Init /\ [][Next]_vars

SpecFilter == InitFilter /\ [][Next]_vars

TypeOK ==
    /\ pc \in {"idle", "loop", "saving", "aborted"}
    /\ runs \in 0..MaxRuns
    /\ idx \in 1..(Len(filtered) + 1)


(***************************************************************************)
(* Vocabulary of the properties                                            *)
(***************************************************************************)
\* the file sourcesFiles.find returns for a handler reference, as a set
MatchingFile(files, h) ==
    {i \in 1..Len(files) :
        /\ EndsWith(files[i].path, ModuleFileName(h))
        /\ \A j \in 1..(i - 1) : ~EndsWith(files[j].path, ModuleFileName(h))}

\* the method declarations a handler reference resolves to (none or one)
ResolvedMethods(files, h) ==
    IF h.fn THEN {}
    ELSE UNION {{files[i].methods[k] : k \in {k \in 1..Len(files[i].methods) :
                                                /\ files[i].defaultClass
                                                /\ files[i].methods[k].name = h.method
                                                /\ files[i].methods[k].hasBody}} :
                i \in MatchingFile(files, h)}

Unresolvable(files, h) == ~h.fn /\ ResolvedMethods(files, h) = {}

Resolvable(files, h) == ResolvedMethods(files, h) # {}

\* the first validateUsing call of a method, as a set (none or one)
FirstValidateUsing(meth) ==
    {meth.calls[n] : n \in {n \in 1..Len(meth.calls) :
                              /\ meth.calls[n].vu
                              /\ \A j \in 1..(n - 1) : ~meth.calls[j].vu}}

NonIdentifierSchema(meth) ==
    \E c \in FirstValidateUsing(meth) : Len(c.args) = 0 \/ c.args[1].kind # "identifier"

UndeclaredSchema(meth) ==
    \E c \in FirstValidateUsing(meth) :
        Len(c.args) > 0 /\ c.args[1].kind = "identifier" /\ c.args[1].impl = <<>>

Warnings(l) == SelectSeq(l, LAMBDA e : e.level = "warning")

LastKey(e) == e.path[Len(e.path)]

SegmentKeys(route) ==
    [i \in 1..Len(Segments(route.pattern)) |-> PieceStr(Segments(route.pattern)[i])]

\* ProcessRoute is about to run its body on a route satisfying P
Processing(P(_)) == pc = "loop" /\ idx <= Len(filtered) /\ P(filtered[idx])

\* the route the loop has just finished with
JustProcessed(P(_)) == pc = "loop" /\ idx > 1 /\ P(filtered[idx - 1])

(***************************************************************************)
(* C1  No node of the definition tree carries a verb key for HEAD: no key  *)
(*     'head' and no key '$head', whatever the routes.                     *)
(***************************************************************************)
C1_NoHeadVerbKey ==
    \A i \in 1..Len(definition) : LastKey(definition[i]) \notin {"head", "$head"}

(***************************************************************************)
(* C2  When both 'only' and 'except' are configured for a mode, a route is *)
(*     kept iff it satisfies 'only'; 'except' has no influence.            *)
(***************************************************************************)
SatisfiesOnly(only, route) ==
    IF only.kind = "fn" THEN route.pattern \in only.accepts
    ELSE \E i \in 1..Len(only.items) : ItemMatches(only.items[i], route.pattern)

BothConfigured(cfg) ==
    cfg.defined /\ cfg.only.kind # "undefined" /\ cfg.except.kind # "undefined"

C2_OnlyIsAuthoritative ==
    /\ ((pc = "loop" /\ BothConfigured(config.definitions))
          => filtered = SelectSeq(routes, LAMBDA r : SatisfiesOnly(config.definitions.only, r)))
    /\ ((pc = "saving" /\ BothConfigured(config.routes))
          => routesNameArray =
               GenerateRoutesNameArray(
                  SelectSeq(filtered, LAMBDA r : SatisfiesOnly(config.routes.only, r)),
                  typesByPattern))

(***************************************************************************)
(* C3  Every type name referenced from the output is defined: each verb    *)
(*     key of the definition tree and each 'types' of a named route is a   *)
(*     key of typesByPattern or 'unknown', at every point of a run and     *)
(*     when the three structures are handed to the writer.                 *)
(***************************************************************************)
C3_ReferencedTypesDefined ==
    /\ \A i \in 1..Len(definition) :
          definition[i].obj \/ definition[i].val \in TypeKeys(typesByPattern) \cup {"unknown"}
    /\ \A i \in 1..Len(routesNameArray) :
          routesNameArray[i].types \in TypeKeys(typesByPattern) \cup {"unknown"}

C3_Witness ==
    /\ pc = "saving"
    /\ \E i \in 1..Len(definition) : definition[i].val \in TypeKeys(typesByPattern)
    /\ \E i \in 1..Len(routesNameArray) : routesNameArray[i].types = "unknown"
    /\ \E i \in 1..Len(routesNameArray) : routesNameArray[i].types \in TypeKeys(typesByPattern)

(***************************************************************************)
(* C4  The named-routes array has exactly one entry per route with a name, *)
(*     in input order, with path = pattern and method = methods, and no    *)
(*     entry for a route without a name.                                   *)
(***************************************************************************)
C4_NamedRoutesArray ==
    pc = "saving" =>
        LET input == FilterRoutes(filtered, config.routes)
            named == SelectSeq(input, LAMBDA r : r.name # Undefined)
        IN /\ Len(routesNameArray) = Len(named)
           /\ \A k \in 1..Len(named) :
                 /\ k <= Len(routesNameArray)
                 /\ routesNameArray[k].name = named[k].name
                 /\ routesNameArray[k].path = PatternStr(named[k].pattern)
                 /\ routesNameArray[k].method = named[k].methods

C4_Witness ==
    /\ pc = "saving"
    /\ Len(filtered) = 2
    /\ filtered[1].name = Undefined
    /\ Len(routesNameArray) = 1
    /\ routesNameArray[1].name = filtered[2].name


(***************************************************************************)
(* C5  A route whose handler cannot be resolved (no file, no default       *)
(*     class, no method, no body) logs a warning, changes neither the      *)
(*     definition tree nor typesByPattern, and the loop goes on to the     *)
(*     next route; the file write starts only after every route has been   *)
(*     processed and only the save can abort the run.                      *)
(***************************************************************************)
C5_UnresolvableHandlerSkipped ==
    [][ /\ Processing(LAMBDA r : Unresolvable(sourcesFiles, r.handler))
           => /\ definition' = definition
              /\ typesByPattern' = typesByPattern
              /\ Len(Warnings(log')) = Len(Warnings(log)) + 1
              /\ pc' = "loop"
              /\ idx' = idx + 1
        /\ pc' = "saving" => idx = Len(filtered) + 1
        /\ (pc' = "aborted" /\ pc # "aborted") => pc = "saving" ]_vars

C5_Witness ==
    /\ pc = "saving"
    /\ Len(filtered) = 2
    /\ Unresolvable(sourcesFiles, filtered[1].handler)
    /\ Resolvable(sourcesFiles, filtered[2].handler)
    /\ Len(Warnings(log)) = 1
    /\ Len(typesByPattern) = 1

(***************************************************************************)
(* C6  (as stated) When the first validateUsing call of a resolved handler *)
(*     has an unresolvable schema reference (first argument not an         *)
(*     identifier, or an identifier without declaration), a warning is     *)
(*     emitted, the run goes on, and the route's TypeEntry has request     *)
(*     'unknown'.                                                          *)
(***************************************************************************)
SchemaUnresolvable(r) ==
    \E meth \in ResolvedMethods(sourcesFiles, r.handler) :
        NonIdentifierSchema(meth) \/ UndeclaredSchema(meth)

TypeEntryOf(types, r) ==
    {types[i] : i \in {i \in 1..Len(types) :
                         types[i].key = GenerateTypeName(r.pattern, r.methods)}}

C6_WarningInBothCases ==
    [][ Processing(SchemaUnresolvable)
           => /\ Len(Warnings(log')) > Len(Warnings(log))
              /\ pc' = "loop"
              /\ idx' = idx + 1
              /\ \A e \in TypeEntryOf(typesByPattern', filtered[idx]) : e.request = "unknown" ]_vars

(***************************************************************************)
(* C6  (amended) In both cases the run goes on and the TypeEntry written   *)
(*     for the route has request 'unknown'; a warning is emitted only when *)
(*     the argument is an identifier without declaration, none when it is  *)
(*     not an identifier.  A pattern without segments writes no TypeEntry. *)
(***************************************************************************)
C6_UnknownRequestWarningOnlyIfUndeclared ==
    [][ Processing(SchemaUnresolvable)
           => LET r == filtered[idx]
                  meth == CHOOSE m \in ResolvedMethods(sourcesFiles, r.handler) : TRUE
              IN /\ Len(Warnings(log')) =
                       Len(Warnings(log)) + (IF UndeclaredSchema(meth) THEN 1 ELSE 0)
                 /\ pc' = "loop"
                 /\ idx' = idx + 1
                 /\ IF Len(Segments(r.pattern)) = 0
                    THEN typesByPattern' = typesByPattern
                    ELSE /\ TypeEntryOf(typesByPattern', r) # {}
                         /\ \A e \in TypeEntryOf(typesByPattern', r) : e.request = "unknown" ]_vars

C6_Witness ==
    /\ JustProcessed(LAMBDA r : \E meth \in ResolvedMethods(sourcesFiles, r.handler) :
                                    NonIdentifierSchema(meth))
    /\ idx = 2
    /\ Warnings(log) = <<>>
    /\ \E e \in TypeEntryOf(typesByPattern, filtered[1]) : e.request = "unknown"

(***************************************************************************)
(* C7  Routes that write a TypeEntry under the same type name leave one    *)
(*     entry under that name, holding the request and response of the last *)
(*     of them in input order; keys are unique, and the log holds nothing  *)
(*     but what each route logs by itself.                                 *)
(***************************************************************************)
\* what the loop body does for a route taken alone
Alone(r) == RouteStep(sourcesFiles, <<>>, <<>>, r)

\* the route runs the terminal-segment callback, where its type name is
\* synthesized and its TypeEntry written
WritesTypeEntry(r) == Resolvable(sourcesFiles, r.handler) /\ Len(Segments(r.pattern)) > 0

C7_LastRouteWins ==
    pc = "saving" =>
        LET done == 1..Len(filtered)
            writers(key) == {j \in done : /\ WritesTypeEntry(filtered[j])
                                          /\ GenerateTypeName(filtered[j].pattern,
                                                              filtered[j].methods) = key}
            last(key) == CHOOSE j \in writers(key) : \A k \in writers(key) : k <= j
        IN /\ \A i \in 1..Len(typesByPattern) :
                 /\ writers(typesByPattern[i].key) # {}
                 /\ typesByPattern[i] =
                       Alone(filtered[last(typesByPattern[i].key)]).typesByPattern[1]
           /\ \A i, k \in 1..Len(typesByPattern) :
                 i # k => typesByPattern[i].key # typesByPattern[k].key
           /\ \A j \in done :
                 WritesTypeEntry(filtered[j])
                    => GenerateTypeName(filtered[j].pattern, filtered[j].methods)
                          \in TypeKeys(typesByPattern)
           /\ Len(Warnings(log)) =
                 Cardinality({j \in done : Unresolvable(sourcesFiles, filtered[j].handler)})
                 + Cardinality({j \in done :
                       \E meth \in ResolvedMethods(sourcesFiles, filtered[j].handler) :
                           UndeclaredSchema(meth)})

C7_Witness ==
    /\ pc = "saving"
    /\ Len(filtered) = 2
    /\ filtered[1].pattern = UsersIdPattern
    /\ filtered[2].pattern = UsersUserIdPattern
    /\ filtered[1].methods = filtered[2].methods
    /\ Len(typesByPattern) = 1
    /\ typesByPattern[1] = Alone(filtered[2]).typesByPattern[1]
    /\ typesByPattern[1] # Alone(filtered[1]).typesByPattern[1]

(***************************************************************************)
(* C8  A route with an inline function handler changes neither the         *)
(*     definition tree nor typesByPattern, and the named-routes array has  *)
(*     an entry for every named route the two filters keep, inline handler *)
(*     or not.                                                             *)
(***************************************************************************)
Allowed(r) ==
    Len(FilterRoutes(FilterRoutes(<<r>>, config.definitions), config.routes)) = 1

C8_InlineHandlerStillNamed ==
    [][ /\ Processing(LAMBDA r : r.handler.fn)
           => /\ definition' = definition
              /\ typesByPattern' = typesByPattern
        /\ pc' = "saving"
           => \A p \in {routes[j].pattern : j \in 1..Len(routes)} :
                 Cardinality({k \in 1..Len(routesNameArray') :
                                 routesNameArray'[k].path = PatternStr(p)})
                 = Cardinality({j \in 1..Len(routes) :
                                 /\ routes[j].pattern = p
                                 /\ routes[j].name # Undefined
                                 /\ Allowed(routes[j])}) ]_vars

C8_Witness ==
    /\ pc = "saving"
    /\ config.routes.defined
    /\ Len(routes) = 2
    /\ routes[1].handler.fn
    /\ Allowed(routes[1])
    /\ ~Allowed(routes[2])
    /\ definition = <<>>
    /\ Len(routesNameArray) = 1
    /\ routesNameArray[1].path = PatternStr(routes[1].pattern)

(***************************************************************************)
(* C9  Every completed call of generate() on the same generator saves the  *)
(*     same text: the text of a call replaces the previous one and does    *)
(*     not depend on the file an earlier call added to the project.        *)
(***************************************************************************)
C9_Idempotent ==
    /\ \A i, j \in 1..Len(written) : written[i] = written[j]
    /\ written # <<>> => disk = written[Len(written)]

C9_Witness ==
    /\ Len(written) = 2
    /\ \E i \in 1..Len(sourcesFiles) : sourcesFiles[i].path = Destination
    /\ \E k \in 1..Len(filtered) : filtered[k].handler.moduleNameOrPath = <<"api">>
    /\ Len(typesByPattern) = 1
    /\ \E i \in 1..Len(log) : log[i].msg = "Unable to find the controller method for /users"

(***************************************************************************)
(* C10 After a route with a resolvable handler is processed, for every     *)
(*     pattern including '/': the node reached by its segments exists,     *)
(*     carries $url and, for each non-HEAD method, '$'+lowercased method   *)
(*     with the route's type name as value; typesByPattern has that name;  *)
(*     and every key put into the tree before is still there.              *)
(***************************************************************************)
C10_TerminalNodeFilled ==
    [][ Processing(LAMBDA r : Resolvable(sourcesFiles, r.handler))
           => LET r == filtered[idx]
                  node == SegmentKeys(r)
                  typeName == GenerateTypeName(r.pattern, r.methods)
              IN /\ node # <<>> => node \in DefPaths(definition')
                 /\ Append(node, "$url") \in DefPaths(definition')
                 /\ \A i \in 1..Len(r.methods) :
                       r.methods[i] # "HEAD" =>
                          \E k \in 1..Len(definition') :
                             /\ definition'[k].path = Append(node, "$" \o ToLowerCase(r.methods[i]))
                             /\ ~definition'[k].obj
                             /\ definition'[k].val = typeName
                 /\ typeName \in TypeKeys(typesByPattern')
                 /\ DefPaths(definition) \subseteq DefPaths(definition') ]_vars


====
